---- MODULE Spec2Model ----
(***************************************************************************)
(* The BB8 command driver of lib/driver.js as a state machine.             *)
(*                                                                         *)
(* State: the driver's one field (heading) and the log of the public calls *)
(* made on the driver.  Each call carries the requests the driver handed   *)
(* to the connection (the BLE transport) on its behalf, the invocations of *)
(* the caller's callback and the errors raised.  A request stays pending   *)
(* until the transport delivers its completion; completions arrive in any  *)
(* order.                                                                  *)
(***************************************************************************)
EXTENDS Integers, Sequences, FiniteSets

VARIABLES heading, calls

vars == <<heading, calls>>

(***************************************************************************)
(* Bounds of the model.                                                    *)
(***************************************************************************)
MaxCalls == 2      \* public calls in a behaviour of Spec
MaxRollCalls == 3  \* public calls in a behaviour of SpecRoll
MaxDevCalls == 2   \* devModeOn calls in a behaviour of SpecDev
MaxLookupCalls == 3  \* public calls in a behaviour of SpecLookup
MaxLevel == 2      \* setTXPower levels are 0..MaxLevel

(***************************************************************************)
(* Wire constants, driver.js lines 16-24 (the UUIDs are kept as names).    *)
(***************************************************************************)
BLE_SERVICE == "BLE_SERVICE"
BLE_WAKE == "BLE_WAKE"
BLE_TX_POWER == "BLE_TX_POWER"
BLE_ANTI_DOS == "BLE_ANTI_DOS"
ROBOT_SERVICE == "ROBOT_SERVICE"
ROBOT_COMMAND == "ROBOT_COMMAND"
ROBOT_NOTIFY == "ROBOT_NOTIFY"

(***************************************************************************)
(* Input domains.                                                          *)
(***************************************************************************)
Null == "null"
Pending == <<"pending">>
Functions == {"function"}
NonFunctions == {"undefined"}
CallbackValues == Functions \cup NonFunctions  \* what a caller passes as callback
Levels == 0..MaxLevel
Colors == {255}
Persists == {FALSE, TRUE}
Speeds == {50}
Headings == {90, 180}
RollStates == {0, 1}
MotorModes == {1, 4}
MotorPowers == {100}
Enables == {0, 1}
Errors == {"e1"}
Datas == {"d1"}
Notifiers == {"n1"}
MemBytes == {0, 1}   \* what a byte of unzeroed memory may hold

\* (error, data) pairs the transport may deliver for a write or a read
WriteResults == {<<Null, d>> : d \in Datas} \cup {<<e, Null>> : e \in Errors}
\* (error, notifier) pairs the transport may deliver for a lookup
LookupResults ==
    {<<Null, n>> : n \in Notifiers} \cup
    {<<e, n>> : e \in {"e1"}, n \in Notifiers \cup {Null}}

(***************************************************************************)
(* JavaScript values and the Buffer constructor.                           *)
(***************************************************************************)
Num(n) == [t |-> "number", n |-> n, a |-> <<>>, p |-> Null]
Arr(a) == [t |-> "array", n |-> 0, a |-> a, p |-> Null]
Pkt(p) == [t |-> "packet", n |-> 0, a |-> <<>>, p |-> p]

\* A buffer of raw bytes.
Raw(bytes) == [enc |-> "raw", data |-> bytes, opts |-> {}]

\* The encoder library: one pure function per command, from the semantic
\* parameters and the options record to a packet.  The packet is opaque to
\* the driver; it is kept as the command name, the parameters in the order
\* given, and the options that are set.
Packet(cmd, args, opts) == [enc |-> cmd, data |-> args, opts |-> opts]

\* new Buffer(value).  A number n allocates n bytes and does not fill them:
\* the content is whatever the memory held.  An array gives its elements as
\* bytes; a packet is copied.
NewBuffer(value) ==
    CASE value.t = "number" ->
            {Raw([i \in 1..value.n |-> b]) : b \in MemBytes}
      [] value.t = "array" ->
            {Raw([i \in 1..Len(value.a) |-> value.a[i] % 256])}
      [] OTHER -> {value.p}

\* String.prototype.charCodeAt for the characters the driver uses.
CharCodeAt(ch) ==
    CASE ch = "0" -> 48
      [] ch = "1" -> 49
      [] ch = "3" -> 51
      [] ch = "i" -> 105

\* The values the driver passes as callback: the caller's own value, or one
\* of the three closures of devModeOn.
Callback == "callback"
AfterAntiDos == "afterAntiDos"
AfterTXPower == "afterTXPower"
AfterWake == "afterWake"

\* IsFunction without the typeof check
IsFunction_Unchecked(c, k) == TRUE

\* typeof k === "function", for the call c
IsFunction(c, k) == k # Callback \/ c.cb \in Functions

(***************************************************************************)
(* The call log.                                                           *)
(***************************************************************************)
NewCall(op, args, cb, reqs) ==
    [op |-> op, args |-> args, cb |-> cb, reqs |-> reqs, cbs |-> <<>>, raised |-> <<>>]

NewRequest(prim, s, c, buf, k) ==
    [prim |-> prim, s |-> s, c |-> c, payload |-> buf, k |-> k,
     res |-> Pending, invoked |-> <<>>]

\* InvokeCallback behind an is-a-function check
InvokeCallback_Checked(c, args) ==
    IF c.cb \in Functions THEN [c EXCEPT !.cbs = Append(@, args)] ELSE c

\* InvokeCallback calling twice
InvokeCallback_Twice(c, args) ==
    IF c.cb \in Functions
    THEN [c EXCEPT !.cbs = Append(Append(@, args), args)]
    ELSE [c EXCEPT !.raised = Append(@, "TypeError")]

\* callback(args...) on the caller's callback of the call c, with no check:
\* a value that is no function raises a TypeError.
InvokeCallback(c, args) ==
    IF c.cb \in Functions
    THEN [c EXCEPT !.cbs = Append(@, args)]
    ELSE [c EXCEPT !.raised = Append(@, "TypeError")]

(***************************************************************************)
(* The driver's methods.  Each gives the request lists the call may leave  *)
(* behind, from the list reqs of the public call, for the callback k.      *)
(***************************************************************************)
writeServiceCharacteristic(reqs, s, c, value, k) ==
    {Append(reqs, NewRequest("write", s, c, buf, k)) : buf \in NewBuffer(value)}

readServiceCharacteristic(reqs, s, c, k) ==
    {Append(reqs, NewRequest("read", s, c, Raw(<<>>), k))}

getServiceCharacteristic(reqs, s, c, k) ==
    {Append(reqs, NewRequest("get", s, c, Raw(<<>>), k))}

wake(reqs, k) ==
    writeServiceCharacteristic(reqs, BLE_SERVICE, BLE_WAKE, Num(1), k)

setTXPower(reqs, level, k) ==
    writeServiceCharacteristic(reqs, BLE_SERVICE, BLE_TX_POWER, Num(level), k)

AntiDosString == <<"0", "1", "1", "i", "3">>

setAntiDos(reqs, k) ==
    LET bytes == [i \in 1..Len(AntiDosString) |-> CharCodeAt(AntiDosString[i])]
    IN  writeServiceCharacteristic(reqs, BLE_SERVICE, BLE_ANTI_DOS, Arr(bytes), k)

\* devModeOn starting with the wake step
devModeOn_WakeFirst(reqs) == wake(reqs, AfterAntiDos)

devModeOn(reqs) == setAntiDos(reqs, AfterAntiDos)

DevTXPower == 7

setRGB(reqs, color, persist, k) ==
    writeServiceCharacteristic(reqs, ROBOT_SERVICE, ROBOT_COMMAND,
        Pkt(Packet("setRGB", <<color, persist>>, {"resetTimeout"})), k)

\* rollHeading not storing the argument
rollHeading_Keep(old, h) == old

\* the heading roll stores, and the packet it sends
rollHeading(old, h) == h

rollPacket(speed, h, state) ==
    Packet("roll", <<speed, h, state>>, {"resetTimeout"})

roll(reqs, speed, h, state, k) ==
    writeServiceCharacteristic(reqs, ROBOT_SERVICE, ROBOT_COMMAND,
        Pkt(rollPacket(speed, h, state)), k)

\* stopArgs ignoring the stored heading
stopArgs_ZeroHeading(stored) == <<0, 0, 1>>

\* the arguments stop passes to roll
stopArgs(stored) == <<0, stored, 1>>

setRawMotorValues(reqs, lm, lp, rm, rp, k) ==
    writeServiceCharacteristic(reqs, ROBOT_SERVICE, ROBOT_COMMAND,
        Pkt(Packet("setRawMotorValues", <<lm, lp, rm, rp>>, {"resetTimeout"})), k)

setStabilization(reqs, enable, k) ==
    writeServiceCharacteristic(reqs, ROBOT_SERVICE, ROBOT_COMMAND,
        Pkt(Packet("setStabilization", <<enable>>, {"resetTimeout"})), k)

setDataStreaming(reqs, sensorRateDivisor, frames, mask, packetCount, mask2, k) ==
    writeServiceCharacteristic(reqs, ROBOT_SERVICE, ROBOT_COMMAND,
        Pkt(Packet("setDataStreaming",
                   <<sensorRateDivisor, frames, mask, packetCount, mask2>>,
                   {"resetTimeout", "requestAcknowledgement"})), k)

\* getDeviceMode, getRGB, getPowerState, getChassisID
query(reqs, cmd, k) ==
    writeServiceCharacteristic(reqs, ROBOT_SERVICE, ROBOT_COMMAND,
        Pkt(Packet(cmd, <<>>, {"resetTimeout", "requestAcknowledgement"})), k)

(***************************************************************************)
(* Public calls.                                                           *)
(***************************************************************************)
Init ==
    /\ heading = 0
    /\ calls = <<>>

\* a call that hands one request to the transport and returns
Issue(op, args, cb, reqss) ==
    \E reqs \in reqss : calls' = Append(calls, NewCall(op, args, cb, reqs))

CallStart(cb) ==
    /\ calls' = Append(calls, InvokeCallback(NewCall("start", <<>>, cb, <<>>), <<>>))
    /\ UNCHANGED heading

CallHalt(cb) ==
    /\ calls' = Append(calls, InvokeCallback(NewCall("halt", <<>>, cb, <<>>), <<>>))
    /\ UNCHANGED heading

CallWake(cb) ==
    /\ Issue("wake", <<>>, cb, wake(<<>>, Callback))
    /\ UNCHANGED heading

CallSetTXPower(level, cb) ==
    /\ Issue("setTXPower", <<level>>, cb, setTXPower(<<>>, level, Callback))
    /\ UNCHANGED heading

CallDevModeOn(cb) ==
    /\ Issue("devModeOn", <<>>, cb, devModeOn(<<>>))
    /\ UNCHANGED heading

CallSetAntiDos(cb) ==
    /\ Issue("setAntiDos", <<>>, cb, setAntiDos(<<>>, Callback))
    /\ UNCHANGED heading

CallSetRGB(color, persist, cb) ==
    /\ Issue("setRGB", <<color, persist>>, cb, setRGB(<<>>, color, persist, Callback))
    /\ UNCHANGED heading

CallRoll(speed, h, state, cb) ==
    /\ heading' = rollHeading(heading, h)
    /\ Issue("roll", <<speed, h, state>>, cb, roll(<<>>, speed, h, state, Callback))

CallStop(cb) ==
    LET a == stopArgs(heading) IN
    /\ heading' = rollHeading(heading, a[2])
    /\ Issue("stop", <<>>, cb, roll(<<>>, a[1], a[2], a[3], Callback))

CallSetRawMotorValues(lm, lp, rm, rp, cb) ==
    /\ Issue("setRawMotorValues", <<lm, lp, rm, rp>>, cb,
             setRawMotorValues(<<>>, lm, lp, rm, rp, Callback))
    /\ UNCHANGED heading

CallSetStabilization(enable, cb) ==
    /\ Issue("setStabilization", <<enable>>, cb, setStabilization(<<>>, enable, Callback))
    /\ UNCHANGED heading

CallSetDataStreaming(d, f, m, pc, m2, cb) ==
    /\ Issue("setDataStreaming", <<d, f, m, pc, m2>>, cb,
             setDataStreaming(<<>>, d, f, m, pc, m2, Callback))
    /\ UNCHANGED heading

CallGetDeviceMode(cb) ==
    /\ Issue("getDeviceMode", <<>>, cb, query(<<>>, "getDeviceMode", Callback))
    /\ UNCHANGED heading

CallGetRGB(cb) ==
    /\ Issue("getRGB", <<>>, cb, query(<<>>, "getRGB", Callback))
    /\ UNCHANGED heading

CallGetPowerState(cb) ==
    /\ Issue("getPowerState", <<>>, cb, query(<<>>, "getPowerState", Callback))
    /\ UNCHANGED heading

CallGetChassisID(cb) ==
    /\ Issue("getChassisID", <<>>, cb, query(<<>>, "getChassisID", Callback))
    /\ UNCHANGED heading

CallReadServiceCharacteristic(s, c, cb) ==
    /\ Issue("_readServiceCharacteristic", <<s, c>>, cb,
             readServiceCharacteristic(<<>>, s, c, Callback))
    /\ UNCHANGED heading

CallGetServiceCharacteristic(s, c, cb) ==
    /\ Issue("getServiceCharacteristic", <<s, c>>, cb,
             getServiceCharacteristic(<<>>, s, c, Callback))
    /\ UNCHANGED heading

(***************************************************************************)
(* The transport delivers the completion res of the pending request w of   *)
(* the call i.  Each gives the states the call may be left in.             *)
(***************************************************************************)
Completed(c, w, res, invoked) ==
    [c EXCEPT !.reqs[w].res = res, !.reqs[w].invoked = invoked]

\* ChainStep leaving the chain on an error, with the error for the caller
ChainStep_CheckError(done, res, nexts) ==
    IF res[1] # Null
    THEN {InvokeCallback(done, res)}
    ELSE {[done EXCEPT !.reqs = reqs] : reqs \in nexts}

\* A closure devModeOn passes to setAntiDos and to setTXPower: it takes no
\* arguments, and issues the next step whatever (err, data) the transport gave.
ChainStep(done, res, nexts) == {[done EXCEPT !.reqs = reqs] : reqs \in nexts}

\* the handler _writeServiceCharacteristic gives the transport
WriteDone(c, w, res) ==
    LET k == c.reqs[w].k
        done == Completed(c, w, res, <<res>>)
    IN
    IF ~IsFunction(c, k)
    THEN {Completed(c, w, res, <<>>)}
    ELSE CASE k = Callback -> {InvokeCallback(done, res)}
           [] k = AfterAntiDos ->
                ChainStep(done, res, setTXPower(done.reqs, DevTXPower, AfterTXPower))
           [] k = AfterTXPower ->
                ChainStep(done, res, wake(done.reqs, AfterWake))
           [] k = AfterWake -> {InvokeCallback(done, res)}

\* _readServiceCharacteristic hands the caller's callback to the transport
ReadDone(c, w, res) == {InvokeCallback(Completed(c, w, res, <<res>>), res)}

\* LookupDone forwarding the transport's two arguments as they are
LookupDone_PassThrough(c, w, res) == {InvokeCallback(Completed(c, w, res, <<res>>), res)}

\* the handler getServiceCharacteristic gives the transport
LookupDone(c, w, res) ==
    LET error == res[1]
        notifier == res[2]
    IN  {InvokeCallback(Completed(c, w, res, <<res>>),
                        IF error # Null THEN <<error>> ELSE <<Null, notifier>>)}

IsPending(i, w, prim) ==
    /\ calls[i].reqs[w].prim = prim
    /\ calls[i].reqs[w].res = Pending

CompleteWrite ==
    \E i \in 1..Len(calls) : \E w \in 1..Len(calls[i].reqs) : \E res \in WriteResults :
        /\ IsPending(i, w, "write")
        /\ \E c \in WriteDone(calls[i], w, res) : calls' = [calls EXCEPT ![i] = c]
        /\ UNCHANGED heading

CompleteRead ==
    \E i \in 1..Len(calls) : \E w \in 1..Len(calls[i].reqs) : \E res \in WriteResults :
        /\ IsPending(i, w, "read")
        /\ \E c \in ReadDone(calls[i], w, res) : calls' = [calls EXCEPT ![i] = c]
        /\ UNCHANGED heading

CompleteLookup ==
    \E i \in 1..Len(calls) : \E w \in 1..Len(calls[i].reqs) : \E res \in LookupResults :
        /\ IsPending(i, w, "get")
        /\ \E c \in LookupDone(calls[i], w, res) : calls' = [calls EXCEPT ![i] = c]
        /\ UNCHANGED heading

(***************************************************************************)
(* Specifications.                                                         *)
(***************************************************************************)
DoStart == \E cb \in CallbackValues : CallStart(cb)
DoHalt == \E cb \in CallbackValues : CallHalt(cb)
DoWake == \E cb \in CallbackValues : CallWake(cb)
DoSetTXPower == \E level \in Levels, cb \in CallbackValues : CallSetTXPower(level, cb)
DoDevModeOn == \E cb \in CallbackValues : CallDevModeOn(cb)
DoSetAntiDos == \E cb \in CallbackValues : CallSetAntiDos(cb)
DoSetRGB ==
    \E color \in Colors, persist \in Persists, cb \in CallbackValues :
        CallSetRGB(color, persist, cb)
DoRoll ==
    \E speed \in Speeds, h \in Headings, state \in RollStates, cb \in CallbackValues :
        CallRoll(speed, h, state, cb)
DoStop == \E cb \in CallbackValues : CallStop(cb)
DoSetRawMotorValues ==
    \E lm \in MotorModes, lp \in MotorPowers, cb \in CallbackValues :
        CallSetRawMotorValues(lm, lp, lm, lp, cb)
DoSetStabilization ==
    \E enable \in Enables, cb \in CallbackValues : CallSetStabilization(enable, cb)
DoSetDataStreaming ==
    \E cb \in CallbackValues : CallSetDataStreaming(2, 10, 255, 0, 0, cb)
DoGetDeviceMode == \E cb \in CallbackValues : CallGetDeviceMode(cb)
DoGetRGB == \E cb \in CallbackValues : CallGetRGB(cb)
DoGetPowerState == \E cb \in CallbackValues : CallGetPowerState(cb)
DoGetChassisID == \E cb \in CallbackValues : CallGetChassisID(cb)
DoReadServiceCharacteristic ==
    \E cb \in Functions : CallReadServiceCharacteristic(ROBOT_SERVICE, ROBOT_NOTIFY, cb)
DoGetServiceCharacteristic ==
    \E cb \in CallbackValues : CallGetServiceCharacteristic(ROBOT_SERVICE, ROBOT_NOTIFY, cb)

\* every operation of the driver, any interleaving with the completions
Next ==
    \/ Len(calls) < MaxCalls /\ DoStart
    \/ Len(calls) < MaxCalls /\ DoHalt
    \/ Len(calls) < MaxCalls /\ DoWake
    \/ Len(calls) < MaxCalls /\ DoSetTXPower
    \/ Len(calls) < MaxCalls /\ DoDevModeOn
    \/ Len(calls) < MaxCalls /\ DoSetAntiDos
    \/ Len(calls) < MaxCalls /\ DoSetRGB
    \/ Len(calls) < MaxCalls /\ DoRoll
    \/ Len(calls) < MaxCalls /\ DoStop
    \/ Len(calls) < MaxCalls /\ DoSetRawMotorValues
    \/ Len(calls) < MaxCalls /\ DoSetStabilization
    \/ Len(calls) < MaxCalls /\ DoSetDataStreaming
    \/ Len(calls) < MaxCalls /\ DoGetDeviceMode
    \/ Len(calls) < MaxCalls /\ DoGetRGB
    \/ Len(calls) < MaxCalls /\ DoGetPowerState
    \/ Len(calls) < MaxCalls /\ DoGetChassisID
    \/ Len(calls) < MaxCalls /\ DoReadServiceCharacteristic
    \/ Len(calls) < MaxCalls /\ DoGetServiceCharacteristic
    \/ CompleteWrite
    \/ CompleteRead
    \/ CompleteLookup

Spec == Init /\ [][Next]_vars

\* roll and stop only, with more calls
NextRoll ==
    \/ Len(calls) < MaxRollCalls /\ DoRoll
    \/ Len(calls) < MaxRollCalls /\ DoStop
    \/ CompleteWrite

SpecRoll == Init /\ [][NextRoll]_vars

\* concurrent devModeOn chains
NextDev ==
    \/ Len(calls) < MaxDevCalls /\ DoDevModeOn
    \/ CompleteWrite

SpecDev == Init /\ [][NextDev]_vars

\* characteristic lookups
NextLookup ==
    \/ Len(calls) < MaxLookupCalls /\ DoGetServiceCharacteristic
    \/ CompleteLookup

SpecLookup == Init /\ [][NextLookup]_vars

(***************************************************************************)
(* Properties.                                                             *)
(***************************************************************************)
Done(r) == r.res # Pending
CallIds == 1..Len(calls)
HasFunction(i) == calls[i].cb \in Functions

\* the operations that are one write each
SingleOps ==
    {"wake", "setTXPower", "setAntiDos", "setRGB", "roll", "stop",
     "setRawMotorValues", "setStabilization", "setDataStreaming",
     "getDeviceMode", "getRGB", "getPowerState", "getChassisID"}

\* the characteristics of the three steps of devModeOn, in order
DevOrder == <<BLE_ANTI_DOS, BLE_TX_POWER, BLE_WAKE>>

\* the writes of a devModeOn call are a prefix of the three steps, each on the
\* BLE-management service, each issued after the completion of the one before
DevWritesInOrder(i) ==
    LET rs == calls[i].reqs IN
    /\ Len(rs) \in 1..3
    /\ \A w \in 1..Len(rs) :
        /\ rs[w].prim = "write"
        /\ rs[w].s = BLE_SERVICE
        /\ rs[w].c = DevOrder[w]
    /\ \A w \in 2..Len(rs) : Done(rs[w - 1])

\* the wake write of the devModeOn call i has completed
WakeDone(i) == Len(calls[i].reqs) = 3 /\ Done(calls[i].reqs[3])

\* C1: devModeOn issues its writes in the order anti-DoS, TX power, wake on the
\* BLE-management service, each after the completion of the one before, three
\* writes once every completion is in; a function callback is invoked once,
\* with the (error, data) of the wake write, and not before that completion.
C1_DevModeOnSequence ==
    \A i \in CallIds : calls[i].op = "devModeOn" =>
        LET rs == calls[i].reqs IN
        /\ DevWritesInOrder(i)
        /\ (\A w \in 1..Len(rs) : Done(rs[w])) => Len(rs) = 3
        /\ HasFunction(i) =>
            calls[i].cbs = IF WakeDone(i) THEN <<rs[3].res>> ELSE <<>>

\* two chains, both run to the end with the callback invoked, one of them with
\* a failed wake write
C1_Witness ==
    /\ Len(calls) = 2
    /\ \A i \in CallIds :
        /\ calls[i].op = "devModeOn" /\ HasFunction(i)
        /\ WakeDone(i) /\ Len(calls[i].cbs) = 1
    /\ calls[1].reqs[3].res[1] # Null
    /\ calls[2].reqs[3].res[1] = Null

\* the heading argument of the last roll call before call i (0 if none)
RECURSIVE PrevRollHeading(_)
PrevRollHeading(i) ==
    IF i <= 1 THEN 0
    ELSE IF calls[i - 1].op = "roll" THEN calls[i - 1].args[2]
    ELSE PrevRollHeading(i - 1)

\* C2: stop issues one write to the robot-command characteristic, carrying the
\* packet of roll(0, h, 1) where h is the heading of the most recent roll call
\* by call order (0 if none), whatever became of that roll's write.
C2_StopUsesLastRollHeading ==
    \A i \in CallIds : calls[i].op = "stop" =>
        LET rs == calls[i].reqs IN
        /\ Len(rs) = 1
        /\ rs[1].prim = "write"
        /\ rs[1].s = ROBOT_SERVICE /\ rs[1].c = ROBOT_COMMAND
        /\ rs[1].payload.enc = "roll"
        /\ rs[1].payload.data = <<0, PrevRollHeading(i), 1>>
        /\ rs[1].payload.opts = {"resetTimeout"}

\* two rolls, the later one already failed while the earlier one is pending,
\* then a stop at the later roll's heading
C2_Witness ==
    /\ Len(calls) = 3
    /\ calls[1].op = "roll" /\ calls[2].op = "roll" /\ calls[3].op = "stop"
    /\ calls[1].args[2] # calls[2].args[2]
    /\ ~Done(calls[1].reqs[1])
    /\ Done(calls[2].reqs[1]) /\ calls[2].reqs[1].res[1] # Null
    /\ calls[3].reqs[1].payload.data = <<0, calls[2].args[2], 1>>

\* C3: setTXPower(level) issues one write to the TX-power characteristic of the
\* BLE-management service whose payload bytes are the value level.
C3_TXPowerPayloadIsLevel ==
    \A i \in CallIds : calls[i].op = "setTXPower" =>
        LET rs == calls[i].reqs IN
        /\ Len(rs) = 1
        /\ rs[1].prim = "write"
        /\ rs[1].s = BLE_SERVICE /\ rs[1].c = BLE_TX_POWER
        /\ rs[1].payload.data = <<calls[i].args[1]>>

\* C4: every error the transport reports for a write of a call whose callback
\* is a function reaches that callback.
C4_EveryErrorSurfaced ==
    \A i \in CallIds : HasFunction(i) =>
        \A w \in 1..Len(calls[i].reqs) :
            LET r == calls[i].reqs[w] IN
            (r.prim = "write" /\ Done(r) /\ r.res[1] # Null) =>
                \E j \in 1..Len(calls[i].cbs) : calls[i].cbs[j] = r.res

\* the callback given with the request w of call i is a function: one of the
\* closures of devModeOn, or a caller's value that is one
GivenFunction(i, w) ==
    \/ calls[i].reqs[w].k \in {AfterAntiDos, AfterTXPower, AfterWake}
    \/ HasFunction(i)

\* C5: the handler of a write invokes the callback it was given with the
\* transport's (error, data) exactly when that callback is a function; when it
\* is not, the write is issued all the same, and its completion invokes
\* nothing and raises nothing.
C5_CallbackIffFunction ==
    \A i \in CallIds : \A w \in 1..Len(calls[i].reqs) :
        LET r == calls[i].reqs[w] IN
        r.prim = "write" =>
            /\ ~Done(r) => r.invoked = <<>>
            /\ (Done(r) /\ GivenFunction(i, w)) => r.invoked = <<r.res>>
            /\ (Done(r) /\ r.k = Callback /\ HasFunction(i)) => calls[i].cbs = <<r.res>>
            /\ ~GivenFunction(i, w) =>
                /\ r.invoked = <<>>
                /\ calls[i].cbs = <<>>
                /\ calls[i].raised = <<>>

\* a write without a function callback completed with an error, and one with
\* a function callback completed
C5_Witness ==
    \E i, j \in CallIds :
        /\ calls[i].op \in SingleOps /\ ~HasFunction(i)
        /\ Done(calls[i].reqs[1]) /\ calls[i].reqs[1].res[1] # Null
        /\ calls[j].op \in SingleOps /\ HasFunction(j)
        /\ Done(calls[j].reqs[1]) /\ Len(calls[j].cbs) = 1

\* C6: getServiceCharacteristic makes one lookup request for (s, c); per reply
\* a function callback is invoked once, with the error alone when the
\* transport reports one, and with (null, notifier) otherwise.
C6_LookupCallbackShape ==
    \A i \in CallIds : calls[i].op = "getServiceCharacteristic" =>
        LET rs == calls[i].reqs IN
        /\ Len(rs) = 1
        /\ rs[1].prim = "get"
        /\ <<rs[1].s, rs[1].c>> = calls[i].args
        /\ HasFunction(i) =>
            calls[i].cbs =
                IF ~Done(rs[1]) THEN <<>>
                ELSE IF rs[1].res[1] # Null THEN << <<rs[1].res[1]>> >>
                ELSE << <<Null, rs[1].res[2]>> >>

\* one lookup failed although the transport passed a notifier, one succeeded
C6_Witness ==
    \E i, j \in CallIds :
        /\ calls[i].op = "getServiceCharacteristic" /\ HasFunction(i)
        /\ Done(calls[i].reqs[1])
        /\ calls[i].reqs[1].res[1] # Null /\ calls[i].reqs[1].res[2] # Null
        /\ Len(calls[i].cbs) = 1
        /\ calls[j].op = "getServiceCharacteristic" /\ HasFunction(j)
        /\ Done(calls[j].reqs[1]) /\ calls[j].reqs[1].res[1] = Null
        /\ Len(calls[j].cbs) = 1

\* C7: the stored heading is the heading argument of the last roll call, 0 if
\* there was none: stop, every other operation and every completion leave it.
C7_HeadingOnlyByRoll == heading = PrevRollHeading(Len(calls) + 1)

\* a roll, then another operation, and a failed completion, with the heading
\* of the roll still stored
C7_Witness ==
    /\ Len(calls) = 2
    /\ calls[1].op = "roll" /\ calls[2].op # "roll"
    /\ Done(calls[1].reqs[1]) /\ calls[1].reqs[1].res[1] # Null
    /\ heading = calls[1].args[2]

\* the requests of the single-write calls, and those of them completed
SingleRequests ==
    {<<i, w>> \in CallIds \X (1..3) :
        calls[i].op \in SingleOps /\ w <= Len(calls[i].reqs)}

SingleCompletions == {p \in SingleRequests : Done(calls[p[1]].reqs[p[2]])}

SingleInvocations ==
    {<<i, j>> \in CallIds \X (1..3) :
        calls[i].op \in SingleOps /\ j <= Len(calls[i].cbs)}

\* C8: a call of an operation other than devModeOn issues one write, within the
\* call; a function callback is invoked once per completion of that write and
\* not without one; the writes are as many as the calls, and the invocations
\* no more than the completions.
C8_SingleRequestSingleResponse ==
    /\ \A i \in CallIds : calls[i].op \in SingleOps =>
        LET rs == calls[i].reqs IN
        /\ Len(rs) = 1
        /\ rs[1].prim = "write"
        /\ HasFunction(i) =>
            calls[i].cbs = IF Done(rs[1]) THEN <<rs[1].res>> ELSE <<>>
    /\ Cardinality(SingleRequests) = Cardinality({i \in CallIds : calls[i].op \in SingleOps})
    /\ Cardinality(SingleInvocations) <= Cardinality(SingleCompletions)

\* two single-write calls outstanding, then one of them answered
C8_Witness ==
    /\ Len(calls) = 2
    /\ \A i \in CallIds : calls[i].op \in SingleOps /\ HasFunction(i)
    /\ calls[1].op = "stop" /\ calls[2].op # "stop"
    /\ ~Done(calls[1].reqs[1])
    /\ Done(calls[2].reqs[1]) /\ Len(calls[2].cbs) = 1

\* C9: the devModeOn chain advances on every completion, whatever its error:
\* a completed anti-DoS write is followed by the TX-power write, a completed
\* TX-power write by the wake write; while a step is pending no later write
\* is issued and the callback is not reached.
C9_ChainIgnoresErrors ==
    \A i \in CallIds : calls[i].op = "devModeOn" =>
        LET rs == calls[i].reqs IN
        /\ \A w \in 1..Len(rs) :
            /\ (Done(rs[w]) /\ w < 3) => Len(rs) > w
            /\ ~Done(rs[w]) =>
                /\ Len(rs) = w
                /\ calls[i].cbs = <<>>
                /\ calls[i].raised = <<>>

\* a chain whose anti-DoS and TX-power writes both failed and whose wake write
\* was issued, and a chain stalled at its first step
C9_Witness ==
    \E i, j \in CallIds :
        /\ calls[i].op = "devModeOn"
        /\ Len(calls[i].reqs) = 3
        /\ calls[i].reqs[1].res[1] # Null
        /\ calls[i].reqs[2].res[1] # Null
        /\ calls[j].op = "devModeOn"
        /\ Len(calls[j].reqs) = 1 /\ ~Done(calls[j].reqs[1])

\* C10: without a function callback, a single-write operation issues its write
\* and raises nothing at completion; devModeOn issues its three writes in order
\* and raises when the completion of the wake write arrives.
C10_OmittedCallback ==
    \A i \in CallIds : ~HasFunction(i) =>
        LET rs == calls[i].reqs IN
        /\ calls[i].op \in SingleOps =>
            /\ Len(rs) = 1 /\ rs[1].prim = "write"
            /\ calls[i].raised = <<>>
        /\ calls[i].op = "devModeOn" =>
            /\ DevWritesInOrder(i)
            /\ (\A w \in 1..Len(rs) : Done(rs[w])) => Len(rs) = 3
            /\ calls[i].raised = IF WakeDone(i) THEN <<"TypeError">> ELSE <<>>

\* a devModeOn without callback that raised, and a single write without
\* callback that completed
C10_Witness ==
    \E i, j \in CallIds :
        /\ calls[i].op = "devModeOn" /\ ~HasFunction(i)
        /\ WakeDone(i) /\ calls[i].raised = <<"TypeError">>
        /\ calls[j].op \in SingleOps /\ ~HasFunction(j)
        /\ Done(calls[j].reqs[1])

====
